---- MODULE Spec2Model ----
(***************************************************************************)
(* LikeeScraper: the API class of LikeeScraper/api.py.                     *)
(*                                                                         *)
(* The model follows one API object through a sequence of calls of its     *)
(* list-fetching operations.  Every operation is recursive in the source:  *)
(* one invocation of the function body (one POST, one extend of the        *)
(* accumulator, one decision to recurse or to return) is one step.  The    *)
(* accumulators are the mutable default arguments of the source            *)
(* (videos=[], video_list=[], hashtags=[]): one list object per function,  *)
(* created when the function is defined and shared by every call that      *)
(* does not pass its own list.                                             *)
(*                                                                         *)
(* The operations driven by the rendered page (get_user_id,                *)
(* get_video_comments), the loop that builds the comment records, the      *)
(* single-request operations (get_user_info, get_user_post_count) and the  *)
(* command-line program (LikeeScraper/scraper.py, start_scraper) have      *)
(* specifications of their own.                                            *)
(***************************************************************************)
EXTENDS Integers, Sequences, FiniteSets, TLC

(* ------------------------------ bounds ------------------------------- *)
MaxItems == 3
PageSize == 2
MaxLimit == MaxItems
MaxCalls == 2
MaxDepth == 4
MaxComments == MaxItems + 2
MaxPolls == PageSize + 1
\* Bits of a float's significand.
Precision == 3
\* The largest pause_time configured.
MaxPause == 4
\* The longest time.sleep oversleeps, in ulps.
MaxLate == 1
\* The largest start passed to get_trending_videos.
MaxStart == 1
\* config.PAUSE_TIME, the default pause.
PAUSE_TIME == 3

(* ----------------------------- constants ----------------------------- *)
\* Python's None, passed as limit by the CLI when -l is omitted.
None == 0 - 1
\* The value of a field a mapping does not hold.
Absent == "absent"

Items == 1 .. MaxItems
Limits == {None} \cup (0 .. MaxLimit)
CommentLimits == {None} \cup (0 .. MaxComments)
PagedOps == {"user_videos", "trending_videos", "trending_hashtags", "hashtag_videos"}

Min(a, b) == IF a <= b THEN a ELSE b

\* The slice list[:limit] for limit >= 0.
TruncateNone(list, lim) == list
Truncate(list, lim) == SubSeq(list, 1, Min(lim, Len(list)))

\* The items i+1 .. i+n of the source, as a list.
RECURSIVE Window(_, _)
Window(i, n) == IF n = 0 THEN <<>> ELSE Append(Window(i, n - 1), i + n)

RECURSIVE Flatten(_)
Flatten(ps) == IF ps = <<>> THEN <<>> ELSE Head(ps) \o Flatten(Tail(ps))

NoDup(s) == \A i, j \in 1 .. Len(s) : i # j => s[i] # s[j]

(* ------------------------- mappings (bodies) -------------------------- *)
\* A decoded body is a mapping that may hold 'message', 'msg' and 'data';
\* data holds the item list ('videoList' / 'eventList').
EmptyMap == [message |-> Absent, msg |-> Absent, hasData |-> FALSE, list |-> <<>>]
\* The local variable response before it is assigned.
Unbound == [message |-> "unbound", msg |-> "unbound", hasData |-> FALSE, list |-> <<>>]

\* len(m) counting the status fields only.
MapLenFields(m) ==
    (IF m.message # Absent THEN 1 ELSE 0) + (IF m.msg # Absent THEN 1 ELSE 0)

\* len(m): the number of keys of the mapping.
MapLen(m) ==
    (IF m.message # Absent THEN 1 ELSE 0) + (IF m.msg # Absent THEN 1 ELSE 0)
    + (IF m.hasData THEN 1 ELSE 0)

VARIABLES
    server,      \* "contract": pages follow the cursor; "loose": they may not
    avail,       \* number of items the source holds
    dflt,        \* the default-argument list of each paginated function
    own,         \* the list the caller passed as accumulator, if it did
    useDefault,  \* the current call uses the function's default list
    op,          \* the operation of the current call
    limit,       \* its limit argument
    cursor,      \* last_post_id / page of the current invocation
    depth,       \* recursion depth of the current call
    pc,          \* "idle", "running", "scrolling", "done"
    status,      \* "none", "returned" or the exception that reached the caller
    result,      \* the list returned
    response,    \* the local variable response of the current invocation
    transport,   \* how the last POST of the current call ended
    requests,    \* make_post_request calls made by the current call
    pauses,      \* pause() calls made by the current call
    pages,       \* the item lists of the pages fetched by the current call
    ncalls,      \* calls made on the API object so far
    elements,    \* get_video_comments: number of visible comment elements
    last_elem,   \* get_video_comments: the trailing element of the last poll
    num_comments,\* get_video_comments: the declared comment count
    polls,       \* get_video_comments: polls made after a scroll
    prev,        \* the fetch that is being repeated: operation, limit, ids
    comments_count, \* get_video_comments: the count text found on the page
    missing,     \* the mandatory page element a lookup did not find
    poster_uid,  \* get_user_id: the value returned
    comments_arr, \* the record loop of get_video_comments: records built
    elem,        \* the comment element the loop body has just processed
    todo,        \* elements of elements[:limit] still to be processed
    building,    \* "none", "loop", "returned" or the exception raised
    user_call,   \* get_user_info / get_user_post_count: operation and user_id
    user_status, \* "none", "returned" or the exception that reached the caller
    user_value,  \* the value returned
    args,        \* start_scraper: the parsed command line
    cliPc,       \* start_scraper: "start", "dispatch", "output", "download",
                 \* "downloading", "quit", "exited"
    cliStatus,   \* "none", "returned" or the exception start_scraper raised
    driver,      \* api.driver: "none", "open", "quit"
    cli_response, \* start_scraper: the local variable response
    fetches,     \* API fetch operations called by start_scraper
    writes,      \* output files written by start_scraper
    downloads,   \* download_video calls made by start_scraper
    dirExists,   \* the download directory exists
    dirCreated,  \* start_scraper has created the download directory
    files,       \* the content of the file of each item in the directory
    next_item,   \* the item the download loop handles next
    last_download, \* the last download_video call: item, GET outcome, file before
    postOutcome, \* a direct make_post_request call: what the POST did
    postReturn,  \* a direct make_post_request call: what it gave the caller
    pause_time,  \* api.pause_time, in seconds
    secs,        \* the duration the last pause() asked time.sleep for, in ulps
    waited,      \* how long that pause() lasted, in ulps
    held,        \* the first list a call returned, as its caller sees it
    start_arg,   \* the start the caller passed to get_trending_videos
    start        \* the parameter start of the current invocation

vars == <<server, avail, dflt, own, useDefault, op, limit, cursor, depth, pc,
          status, result, response, transport, requests, pauses, pages,
          ncalls, elements, last_elem, comments_count, num_comments, polls,
          missing, poster_uid, prev, comments_arr, elem, todo, building,
          user_call, user_status, user_value, args, cliPc, cliStatus, driver,
          cli_response, fetches, writes, downloads, dirExists, dirCreated,
          files, next_item, last_download, postOutcome,
          postReturn, pause_time, secs, waited, held,
          start_arg, start>>

callVars == <<op, limit, useDefault, start_arg>>
envVars == <<server, avail, ncalls, prev>>
commentVars == <<elements, last_elem, comments_count, num_comments, polls,
                 missing, poster_uid>>
postVars == <<postOutcome, postReturn>>
pauseVars == <<pause_time, secs, waited>>
legacyVars == <<held>>
recordVars == <<comments_arr, elem, todo, building>>
\* The variables of the calls on the API object.
apiVars == <<server, avail, dflt, own, useDefault, op, limit, start_arg, start,
             cursor, depth, pc,
             status, result, response, transport, requests, pauses, pages,
             ncalls, commentVars, prev, pauseVars, legacyVars>>
\* The variables of the parts modelled on their own.
userVars == <<user_call, user_status, user_value>>
cliVars == <<args, cliPc, cliStatus, driver, cli_response, fetches, writes,
             downloads, dirExists, dirCreated, files, next_item, last_download>>
sideVars == <<postVars, recordVars, userVars, cliVars, pauseVars, legacyVars>>

(* ----------------------------- the server ----------------------------- *)
\* user/trending videos are addressed by the postId of the last item seen,
\* hashtags and hashtag videos by a page number.
ByLastId(o) == o \in {"user_videos", "trending_videos"}

\* last_post_id='' / 0 for the operations addressed by postId, page=1 for the rest.
DefaultCursor(o) == IF ByLastId(o) THEN 0 ELSE 1

\* The page a server that honours its pagination contract returns.
ContractPage(o, c) ==
    LET first == IF ByLastId(o) THEN c ELSE (c - 1) * PageSize
    IN IF first >= avail THEN <<>> ELSE Window(first, Min(PageSize, avail - first))

\* A server that does not honour the contract may also answer any request
\* with the first page again (the cursor ignored) or with no items at all.
ServerPages(o, c) ==
    IF server = "contract" THEN {ContractPage(o, c)}
    ELSE {ContractPage(o, c), ContractPage(o, DefaultCursor(o)), <<>>}

FieldsOf == {Absent, "ok", "error"}
MsgOf == {Absent, "success", "fail"}

\* What one POST can do: time out, answer with a status other than 200, or
\* answer 200 with a decoded body.
PostOutcomes(o, c) ==
    {[kind |-> "timeout", status |-> 0, body |-> EmptyMap]}
    \cup {[kind |-> "answer", status |-> s, body |-> EmptyMap] : s \in {404, 500}}
    \cup {[kind |-> "answer", status |-> 200,
           body |-> [message |-> m, msg |-> g, hasData |-> TRUE, list |-> p]] :
            m \in FieldsOf, g \in MsgOf, p \in ServerPages(o, c)}
    \cup {[kind |-> "answer", status |-> 200,
           body |-> [message |-> m, msg |-> g, hasData |-> FALSE, list |-> <<>>]] :
            m \in FieldsOf, g \in MsgOf}

\* The outcomes tried in the paginated operations: those whose body has no
\* msg field.  make_post_request treats msg as it treats message, and every
\* combination of the two is tried on make_post_request called alone.
PageOutcomes(o, c) == {out \in PostOutcomes(o, c) : out.body.msg = Absent}

(* ------------------------- make_post_request -------------------------- *)
make_post_request_ignores_msg(o) ==
    IF o.kind = "timeout" THEN [raises |-> "Timeout", ret |-> Unbound]
    ELSE IF o.status # 200 THEN [raises |-> "none", ret |-> EmptyMap]
    ELSE IF o.body.message # Absent /\ o.body.message # "ok"
         THEN [raises |-> "none", ret |-> EmptyMap]
         ELSE [raises |-> "none", ret |-> o.body]

make_post_request(o) ==
    IF o.kind = "timeout" THEN [raises |-> "Timeout", ret |-> Unbound]
    ELSE IF o.status # 200 THEN [raises |-> "none", ret |-> EmptyMap]
    ELSE IF o.body.message # Absent /\ o.body.message # "ok"
         THEN [raises |-> "none", ret |-> EmptyMap]
         ELSE IF o.body.msg # Absent /\ o.body.msg # "success"
              THEN [raises |-> "none", ret |-> EmptyMap]
              ELSE [raises |-> "none", ret |-> o.body]

\* How the POST ended, as the log lines of make_post_request tell it.
PostClass(o) ==
    IF o.kind = "timeout" THEN "timeout"
    ELSE IF o.status # 200 THEN "http_error"
    ELSE IF make_post_request(o).ret # o.body THEN "rejected"
    ELSE "accepted"

\* The local variable comments_count before it is assigned.
NoCount == [kind |-> "none", n |-> 0]

\* The loop variable elem before the loop starts.
NoElem == [text |-> "unbound", like |-> [kind |-> "none", n |-> 0],
           nickname |-> "unbound", time |-> "unbound"]

\* start_scraper before parse_args, and its local response before the fetch.
NoArgs == [mode |-> "none", given |-> FALSE, output |-> FALSE, d |-> FALSE]
NoResponse == [kind |-> "unbound", n |-> 0]
NoDownload == [item |-> 0, get |-> "none", before |-> "absent"]

\* No call has been made before the current one.
NoCall == [op |-> "none", limit |-> 0, ids |-> {}]

\* The primary identifiers (postId / eventId) of the records of a list.
Ids(list) == {list[i] : i \in 1 .. Len(list)}

\* What is remembered of a call when the next one starts: the operation, the
\* limit and the identifiers it returned, for a paginated fetch that returned
\* a list from an upstream that answers every request from the same data.
Remembered ==
    IF status = "returned" /\ op \in PagedOps /\ server = "contract"
    THEN [op |-> op, limit |-> limit, ids |-> Ids(result)]
    ELSE NoCall

\* No list has been returned yet.
NoHeld == [list |-> <<>>, was |-> <<>>, shared |-> FALSE, op |-> "none"]

(* --------------------------- initial state ---------------------------- *)
Init ==
    /\ server \in {"contract", "loose"}
    /\ avail \in 0 .. MaxItems
    /\ dflt = [o \in PagedOps |-> <<>>]
    /\ own = <<>>
    /\ useDefault = TRUE
    /\ op = "none"
    /\ limit = 0
    /\ cursor = 0
    /\ depth = 0
    /\ pc = "idle"
    /\ status = "none"
    /\ result = <<>>
    /\ response = Unbound
    /\ transport = "none"
    /\ requests = 0
    /\ pauses = 0
    /\ pages = <<>>
    /\ ncalls = 0
    /\ elements = 0
    /\ last_elem = 0
    /\ comments_count = NoCount
    /\ missing = "none"
    /\ poster_uid = None
    /\ num_comments = 0
    /\ polls = 0
    /\ prev = NoCall
    /\ comments_arr = <<>>
    /\ elem = NoElem
    /\ todo = 0
    /\ building = "none"
    /\ user_call = [op |-> "none", uid |-> 0]
    /\ user_status = "none"
    /\ user_value = <<>>
    /\ args = NoArgs
    /\ cliPc = "start"
    /\ cliStatus = "none"
    /\ driver = "none"
    /\ cli_response = NoResponse
    /\ fetches = 0
    /\ writes = 0
    /\ downloads = 0
    /\ dirExists = FALSE
    /\ dirCreated = FALSE
    /\ files = [i \in Items |-> "absent"]
    /\ next_item = 0
    /\ last_download = NoDownload
    /\ postOutcome = [kind |-> "none", status |-> 0, body |-> EmptyMap]
    /\ postReturn = [raises |-> "none", ret |-> Unbound]
    /\ pause_time = PAUSE_TIME
    /\ secs = None
    /\ waited = None
    /\ held = NoHeld
    /\ start_arg = 0
    /\ start = 0


\* The caller invokes operation o with limit l; d: it passes no accumulator,
\* so the function's default list is used; otherwise it passes a new [].
Begin(o, l, d) ==
    /\ pc \in {"idle", "done"}
    /\ op' = o
    /\ limit' = l
    /\ useDefault' = d
    /\ own' = <<>>
    /\ cursor' = DefaultCursor(o)
    /\ depth' = 1
    /\ pc' = "running"
    /\ status' = "none"
    /\ result' = <<>>
    /\ response' = Unbound
    /\ transport' = "none"
    /\ requests' = 0
    /\ pauses' = 0
    /\ pages' = <<>>
    /\ ncalls' = ncalls + 1
    /\ elements' = 0
    /\ last_elem' = 0
    /\ comments_count' = NoCount
    /\ missing' = "none"
    /\ poster_uid' = None
    /\ num_comments' = 0
    /\ polls' = 0
    /\ UNCHANGED <<server, avail, dflt, sideVars>>

Call(o, l, d) ==
    /\ ncalls < MaxCalls
    /\ Begin(o, l, d)
    /\ start_arg' = 0
    /\ start' = 0
    /\ UNCHANGED prev

\* The fetch that has just returned is issued once more on the same object:
\* the same operation with the same limit, with or without a list of the
\* caller's own.
Repeat ==
    /\ ncalls = MaxCalls
    /\ Remembered # NoCall
    /\ prev' = Remembered
    /\ \E d \in BOOLEAN : Begin(op, limit, d)
    /\ start_arg' = 0
    /\ start' = 0

\* get_trending_videos(limit=l, start=s): the caller names the start.
CallTrendingFrom ==
    /\ ncalls < MaxCalls
    /\ \E l \in Limits, d \in BOOLEAN : Begin("trending_videos", l, d)
    /\ \E s \in 0 .. MaxStart : start_arg' = s /\ start' = s
    /\ UNCHANGED prev

CallPaged == \E o \in PagedOps, l \in Limits, d \in BOOLEAN : Call(o, l, d)

CallComments == \E l \in CommentLimits : Call("video_comments", l, TRUE)

(* --------------------- how an invocation can end ---------------------- *)
Raise(e) ==
    /\ pc' = "done"
    /\ status' = e
    /\ result' = <<>>
    /\ UNCHANGED <<cursor, depth, start>>

Return(l) ==
    /\ pc' = "done"
    /\ status' = "returned"
    /\ result' = l
    /\ UNCHANGED <<cursor, depth, start>>

\* The function calls itself; the interpreter refuses a call beyond its
\* recursion limit with RecursionError.
Recurse(c) ==
    IF depth >= MaxDepth THEN Raise("RecursionError")
    ELSE /\ pc' = "running"
         /\ cursor' = c
         /\ depth' = depth + 1
         /\ start' = 0
         /\ UNCHANGED <<status, result>>

(* ------------------------- the accumulators --------------------------- *)
Acc == IF useDefault THEN dflt[op] ELSE own

SetAcc(new) ==
    IF useDefault THEN dflt' = [dflt EXCEPT ![op] = new] /\ own' = own
    ELSE own' = new /\ dflt' = dflt

(* ---------------- the condition under which each recurses ------------- *)
ContinueUserVideos(videos, lim, resp) == Len(videos) < lim /\ MapLen(resp) > 0

ContinueTrendingVideos(video_list, lim, resp) == Len(video_list) < lim

ContinueTrendingHashtags(hashtags, lim, resp) ==
    Len(hashtags) < lim /\ Len(resp.list) > 0

ContinueHashtagVideos(videos, lim, resp) == Len(videos) < lim

\* The condition of the if statement of the current operation.
Continue(videos, lim, resp) ==
    CASE op = "user_videos" -> ContinueUserVideos(videos, lim, resp)
      [] op = "trending_videos" -> ContinueTrendingVideos(videos, lim, resp)
      [] op = "trending_hashtags" -> ContinueTrendingHashtags(videos, lim, resp)
      [] op = "hashtag_videos" -> ContinueHashtagVideos(videos, lim, resp)

\* videos[-1]['postId']: an item is represented by its postId.
first_id(videos) == videos[1]
last_id(videos) == videos[Len(videos)]

(* ----------------- one invocation of a function body ------------------ *)
\* o: what the POST does.
Paginate(o) ==
    LET r == make_post_request(o)
        videos == Acc \o r.ret.list
    IN  /\ requests' = requests + 1
        /\ transport' = PostClass(o)
        /\ UNCHANGED <<callVars, envVars, commentVars, sideVars>>
        /\ IF r.raises # "none"
           THEN /\ Raise(r.raises)
                /\ UNCHANGED <<response, dflt, own, pages, pauses>>
           ELSE /\ response' = r.ret
                /\ IF ~r.ret.hasData
                   THEN \* response['data'] on a mapping without 'data'
                        /\ Raise("KeyError")
                        /\ UNCHANGED <<dflt, own, pages, pauses>>
                   ELSE /\ SetAcc(videos)
                        /\ pages' = Append(pages, r.ret.list)
                        /\ IF limit = None
                           THEN \* len(videos) < None
                                /\ Raise("TypeError")
                                /\ pauses' = pauses
                           ELSE IF Continue(videos, limit, r.ret)
                           THEN /\ pauses' = pauses + 1
                                /\ IF ByLastId(op)
                                   THEN IF videos = <<>>
                                        THEN \* videos[-1] on an empty list
                                             Raise("IndexError")
                                        ELSE Recurse(last_id(videos))
                                   ELSE Recurse(cursor + 1)
                           ELSE /\ pauses' = pauses
                                /\ Return(Truncate(videos, limit))

get_user_videos ==
    /\ pc = "running" /\ op = "user_videos"
    /\ \E o \in PageOutcomes(op, cursor) : Paginate(o)

get_trending_videos ==
    /\ pc = "running" /\ op = "trending_videos"
    /\ \E o \in PageOutcomes(op, cursor) : Paginate(o)

get_trending_hashtags ==
    /\ pc = "running" /\ op = "trending_hashtags"
    /\ \E o \in PageOutcomes(op, cursor) : Paginate(o)

get_hashtag_videos ==
    /\ pc = "running" /\ op = "hashtag_videos"
    /\ \E o \in PageOutcomes(op, cursor) : Paginate(o)

(* ------------------------ get_video_comments -------------------------- *)
\* What the rendered page can show for the declared comment count.
\* "number" n is the text of the integer n; "thousands" n is the text of
\* n tenths of a thousand followed by K ("1K", "1.5K").
CountTexts ==
    {[kind |-> "absent", n |-> 0], [kind |-> "nonnumeric", n |-> 0]}
    \cup {[kind |-> "number", n |-> k] : k \in 0 .. MaxComments}
    \cup {[kind |-> "thousands", n |-> k] : k \in {10, 15}}

\* The number of comments a count text declares.
Declared(count) == IF count.kind = "thousands" THEN count.n * 100 ELSE count.n

\* int(float(comments_count[:-1])) * 1000, or int(comments_count).
ParseCount(count) ==
    IF count.kind = "thousands" THEN (count.n \div 10) * 1000 ELSE count.n

\* limit = min(limit, num_comments)
EffectiveLimitIgnoresCount(l, c) == l
EffectiveLimit(l, c) == Min(l, c)

\* last_elem == elements[-1], for a poll that found n >= 1 elements.
StalledNever(last, n) == FALSE
Stalled(last, n) == last = n

\* The numbers of comment elements a poll can find after `seen` were
\* visible: a page that only loads more, or any number at all.
Polls(seen) == IF server = "contract" THEN seen .. MaxComments ELSE 0 .. MaxComments

\* The loop over elements[:limit] that builds the records: a mandatory
\* sub-element (like-count, nickname, time) may be absent from a record.
BuildComments(n, lim, complete) ==
    IF complete \/ Truncate(Window(0, n), lim) = <<>>
    THEN Return(Truncate(Window(0, n), lim))
    ELSE Raise("NoSuchElementException")

\* From driver.get to the first evaluation of the loop condition.
get_video_comments_open ==
    /\ pc = "running" /\ op = "video_comments"
    /\ \E hasCard \in BOOLEAN, count \in CountTexts, first \in 0 .. MaxComments :
         /\ UNCHANGED <<callVars, envVars, sideVars, dflt, own, response,
                        transport, requests, pages, polls, poster_uid>>
         /\ IF ~hasCard
            THEN \* find_elements(...)[0] on an empty list
                 /\ Raise("IndexError")
                 /\ pauses' = pauses + 1
                 /\ missing' = "video_card"
                 /\ UNCHANGED <<elements, last_elem, comments_count, num_comments>>
            ELSE /\ pauses' = pauses + 2
                 /\ IF count.kind = "absent"
                    THEN Raise("NoSuchElementException")
                         /\ missing' = "comment_count"
                         /\ UNCHANGED <<elements, last_elem, comments_count, num_comments>>
                    ELSE IF count.kind = "nonnumeric"
                    THEN Raise("ValueError")
                         /\ UNCHANGED <<elements, last_elem, comments_count,
                                        num_comments, missing>>
                    ELSE IF limit = None
                    THEN \* min(None, num_comments)
                         Raise("TypeError")
                         /\ UNCHANGED <<elements, last_elem, comments_count,
                                        num_comments, missing>>
                    ELSE IF first = 0
                    THEN \* elements[0] on an empty list
                         /\ Raise("IndexError")
                         /\ missing' = "comment_item"
                         /\ comments_count' = count
                         /\ num_comments' = ParseCount(count)
                         /\ UNCHANGED <<elements, last_elem>>
                    ELSE /\ comments_count' = count
                         /\ num_comments' = ParseCount(count)
                         /\ missing' = missing
                         /\ elements' = first
                         /\ last_elem' = first
                         /\ pc' = "scrolling"
                         /\ UNCHANGED <<status, result, cursor, depth, start>>

\* One evaluation of the loop condition: an iteration of the while loop,
\* or the exit from it and the construction of the result.
get_video_comments_scroll ==
    /\ pc = "scrolling"
    /\ UNCHANGED <<callVars, envVars, sideVars, dflt, own, response,
                   transport, requests, pages, comments_count,
                   num_comments, missing, poster_uid>>
    /\ LET lim == EffectiveLimit(limit, num_comments)
       IN IF elements < lim
          THEN \E n \in Polls(elements) :
                 /\ polls < MaxPolls
                 /\ pauses' = pauses + 1
                 /\ polls' = polls + 1
                 /\ IF n = 0
                    THEN \* elements[-1] on an empty list
                         /\ Raise("IndexError")
                         /\ elements' = n
                         /\ last_elem' = last_elem
                    ELSE /\ elements' = n
                         /\ last_elem' = n
                         /\ IF Stalled(last_elem, n)
                            THEN \E complete \in BOOLEAN : BuildComments(n, lim, complete)
                            ELSE /\ pc' = "scrolling"
                                 /\ UNCHANGED <<status, result, cursor, depth, start>>
          ELSE /\ UNCHANGED <<pauses, polls, elements, last_elem>>
               /\ \E complete \in BOOLEAN : BuildComments(elements, lim, complete)

(* ---------------------------- get_user_id ----------------------------- *)
\* The uid embedded in the first video's page.
Uid == 7

\* What requests.get(current_url) can bring: no answer, a page without the
\* 'window.data = {...};' block, a block without 'poster_uid', or both.
VideoPages == {"unreachable", "no_window_data", "no_poster_uid", "ok"}

CallUserId == Call("user_id", 0, TRUE)

get_user_id ==
    /\ pc = "running" /\ op = "user_id"
    /\ UNCHANGED <<callVars, envVars, sideVars, dflt, own, response, transport,
                   requests, pages, elements, last_elem, comments_count,
                   num_comments, polls>>
    /\ \E hasVideo \in BOOLEAN, page \in VideoPages :
         IF ~hasVideo
         THEN \* the lookup of the first video raises inside the try
              /\ Return(<<>>)
              /\ poster_uid' = None
              /\ missing' = "first_video"
              /\ pauses' = pauses + 1
         ELSE /\ pauses' = pauses + 2
              /\ IF page = "unreachable"
                 THEN Raise("ConnectionError")
                      /\ UNCHANGED <<missing, poster_uid>>
                 ELSE IF page = "no_window_data"
                 THEN \* regex_pattern.search(...) is None
                      /\ Raise("AttributeError")
                      /\ missing' = "window_data"
                      /\ UNCHANGED poster_uid
                 ELSE IF page = "no_poster_uid"
                 THEN Raise("KeyError")
                      /\ UNCHANGED <<missing, poster_uid>>
                 ELSE /\ Return(<<>>)
                      /\ poster_uid' = Uid
                      /\ UNCHANGED missing

(* --------------- get_video_comments: building the records ------------ *)
MaxLikes == 1

\* What the page can show inside one comment element: each sub-element
\* (msg_min, like-count, nickname, time) is present with a text, or absent.
LikeTexts ==
    {[kind |-> "absent", n |-> 0], [kind |-> "nonnumeric", n |-> 0]}
    \cup {[kind |-> "number", n |-> k] : k \in 0 .. MaxLikes}

CommentElems ==
    [text : {Absent, "nice"}, like : LikeTexts, nickname : {Absent, "ann"},
     time : {Absent, "1d"}]

\* try: text = elem.find_element('msg_min').text / except Exception: text = ''
CommentText(e) == IF e.text = Absent THEN "" ELSE e.text

\* try: like_count = int(like_count) / except Exception: like_count = 0
LikeCount(like) == IF like.kind = "number" THEN like.n ELSE 0

\* The loop over elements[:limit] starts with k elements to process.
build_start ==
    /\ building \in {"none", "returned", "NoSuchElementException"}
    /\ \E k \in 0 .. MaxComments : todo' = k
    /\ comments_arr' = <<>>
    /\ elem' = NoElem
    /\ building' = "loop"
    /\ UNCHANGED <<apiVars, postVars, userVars, cliVars>>

\* One iteration of the loop body on the element e.  The lookups of
\* like-count, nickname and time stand outside any try.
build_record ==
    /\ building = "loop" /\ todo > 0
    /\ \E e \in CommentElems :
         /\ elem' = e
         /\ IF e.like.kind = "absent" \/ e.nickname = Absent \/ e.time = Absent
            THEN /\ building' = "NoSuchElementException"
                 /\ UNCHANGED <<comments_arr, todo>>
            ELSE /\ comments_arr' = Append(comments_arr,
                        [username |-> e.nickname, comment_text |-> CommentText(e),
                         time |-> e.time, like_count |-> LikeCount(e.like)])
                 /\ todo' = todo - 1
                 /\ UNCHANGED building
    /\ UNCHANGED <<apiVars, postVars, userVars, cliVars>>

\* return comments_arr
build_return ==
    /\ building = "loop" /\ todo = 0
    /\ building' = "returned"
    /\ UNCHANGED <<comments_arr, elem, todo>>
    /\ UNCHANGED <<apiVars, postVars, userVars, cliVars>>

(* ------------- get_user_info and get_user_post_count ------------------ *)
MaxUsers == 2
Users == 1 .. MaxUsers

\* What one POST to a user endpoint can do.  The data of an answer holds the
\* entries of the users 1 .. k (in the list field of the body).
UserOutcomes ==
    {[kind |-> "timeout", status |-> 0, body |-> EmptyMap]}
    \cup {[kind |-> "answer", status |-> s, body |-> EmptyMap] : s \in {404, 500}}
    \cup {[kind |-> "answer", status |-> 200,
           body |-> [message |-> m, msg |-> g, hasData |-> TRUE,
                     list |-> Window(0, k)]] :
            m \in FieldsOf, g \in MsgOf, k \in 0 .. MaxUsers}
    \cup {[kind |-> "answer", status |-> 200,
           body |-> [message |-> m, msg |-> g, hasData |-> FALSE, list |-> <<>>]] :
            m \in FieldsOf, g \in MsgOf}

\* return response['data']
get_user_info ==
    \E u \in Users, out \in UserOutcomes :
      LET r == make_post_request(out)
      IN /\ user_call' = [op |-> "user_info", uid |-> u]
         /\ postOutcome' = out
         /\ postReturn' = r
         /\ IF r.raises # "none"
            THEN user_status' = r.raises /\ user_value' = <<>>
            ELSE IF ~r.ret.hasData
            THEN user_status' = "KeyError" /\ user_value' = <<>>
            ELSE user_status' = "returned" /\ user_value' = r.ret.list
         /\ UNCHANGED <<apiVars, recordVars, cliVars>>

\* return response['data']['postInfoMap'][user_id]
get_user_post_count ==
    \E u \in Users, out \in UserOutcomes :
      LET r == make_post_request(out)
      IN /\ user_call' = [op |-> "user_post_count", uid |-> u]
         /\ postOutcome' = out
         /\ postReturn' = r
         /\ IF r.raises # "none"
            THEN user_status' = r.raises /\ user_value' = <<>>
            ELSE IF ~r.ret.hasData \/ u > Len(r.ret.list)
            THEN user_status' = "KeyError" /\ user_value' = <<>>
            ELSE user_status' = "returned" /\ user_value' = <<u>>
         /\ UNCHANGED <<apiVars, recordVars, cliVars>>

(* ------------------------- start_scraper (CLI) ------------------------ *)
Modes == {"user_id", "user_info", "user_post_count", "user_videos",
          "trending_videos", "trending_hashtags", "hashtag_videos",
          "video_comments"}

\* The option a mode cannot do without.
RequiredNone(mode) == "none"
Required(mode) ==
    CASE mode = "user_id" -> "username"
      [] mode \in {"user_info", "user_post_count", "user_videos"} -> "userid"
      [] mode = "hashtag_videos" -> "hashtagid"
      [] mode = "video_comments" -> "videourl"
      [] OTHER -> "none"

\* The command lines: a mode (one of the eight or another word), whether the
\* mode's option is given, whether -o is given, whether -d is given.
CommandLines ==
    [mode : Modes \cup {"videos"}, given : BOOLEAN, output : BOOLEAN,
     d : BOOLEAN]

\* add_argument('-d', '--download', action='store_false'): args.download.
Download(a) == ~a.d

\* What the API operation of a mode can return: None or a string (user_id),
\* a mapping, or a list of records; n counts its characters, keys or records.
Responses(mode) ==
    IF mode = "user_id"
    THEN {[kind |-> "none", n |-> 0], [kind |-> "str", n |-> 1]}
    ELSE IF mode \in {"user_info", "user_post_count"}
    THEN {[kind |-> "dict", n |-> k] : k \in 0 .. 1}
    ELSE IF mode = "trending_hashtags"
    THEN {[kind |-> "hashtags", n |-> k] : k \in 0 .. MaxItems}
    ELSE IF mode = "video_comments"
    THEN {[kind |-> "comments", n |-> k] : k \in 0 .. MaxItems}
    ELSE {[kind |-> "videos", n |-> k] : k \in 0 .. MaxItems}

\* start_scraper ends by raising e; nothing after the raise is executed.
Exit(e) ==
    /\ cliPc' = "exited"
    /\ cliStatus' = e

\* parse_args() and api = API(), which starts the browser.
start_scraper_parse ==
    /\ cliPc = "start"
    /\ \E a \in CommandLines : args' = a
    /\ \E dir \in BOOLEAN :
         /\ dirExists' = dir
         /\ IF dir THEN files' \in [Items -> {"absent", "old"}]
                   ELSE files' = files
    /\ driver' = "open"
    /\ cliPc' = "dispatch"
    /\ UNCHANGED <<cliStatus, cli_response, fetches, writes, downloads,
                   dirCreated, next_item, last_download>>
    /\ UNCHANGED <<apiVars, postVars, recordVars, userVars>>

\* The mode check, the check of the mode's option and the API operation.
start_scraper_fetch ==
    /\ cliPc = "dispatch"
    /\ IF args.mode \notin Modes
       THEN Exit("Exception") /\ UNCHANGED <<cli_response, fetches>>
       ELSE IF Required(args.mode) # "none" /\ ~args.given
       THEN Exit("Exception") /\ UNCHANGED <<cli_response, fetches>>
       ELSE /\ fetches' = fetches + 1
            /\ \/ \* the operation raises
                  Exit("ApiError") /\ UNCHANGED cli_response
               \/ \E r \in Responses(args.mode) :
                    /\ cli_response' = r
                    /\ cliPc' = "output"
                    /\ UNCHANGED cliStatus
    /\ UNCHANGED <<args, driver, writes, downloads, dirExists, dirCreated,
                   files, next_item, last_download>>
    /\ UNCHANGED <<apiVars, postVars, recordVars, userVars>>

\* if args.output: open(args.output, 'w') and write
start_scraper_output ==
    /\ cliPc = "output"
    /\ IF args.output
       THEN \/ Exit("OSError") /\ UNCHANGED writes
            \/ /\ writes' = writes + 1
               /\ cliPc' = "download"
               /\ UNCHANGED cliStatus
       ELSE /\ cliPc' = "download"
            /\ UNCHANGED <<cliStatus, writes>>
    /\ UNCHANGED <<args, driver, cli_response, fetches, downloads, dirExists,
                   dirCreated, files, next_item, last_download>>
    /\ UNCHANGED <<apiVars, postVars, recordVars, userVars>>

\* if args.download: the directory, then the first evaluation of
\* `for item in response` and of item['videoUrl'].
start_scraper_download ==
    /\ cliPc = "download"
    /\ IF Download(args)
       THEN /\ dirExists' = TRUE
            /\ dirCreated' = ~dirExists
            /\ IF cli_response.kind = "none"
               THEN \* None is not iterable
                    Exit("TypeError") /\ UNCHANGED next_item
               ELSE IF cli_response.n = 0
               THEN cliPc' = "quit" /\ UNCHANGED <<cliStatus, next_item>>
               ELSE IF cli_response.kind \in {"str", "dict"}
               THEN \* item is a string
                    Exit("TypeError") /\ UNCHANGED next_item
               ELSE IF cli_response.kind # "videos"
               THEN Exit("KeyError") /\ UNCHANGED next_item
               ELSE /\ cliPc' = "downloading"
                    /\ next_item' = 1
                    /\ UNCHANGED cliStatus
       ELSE /\ cliPc' = "quit"
            /\ UNCHANGED <<cliStatus, dirExists, dirCreated, next_item>>
    /\ UNCHANGED <<args, driver, cli_response, fetches, writes, downloads,
                   files, last_download>>
    /\ UNCHANGED <<apiVars, postVars, recordVars, userVars>>

\* What requests.get(video_url, timeout=...) can do.
GetOutcomes == {"timeout", "answer", "connection_error"}

\* api.download_video(video_url, filepath) for the next item of the loop.
download_video ==
    /\ cliPc = "downloading"
    /\ downloads' = downloads + 1
    /\ \E get \in GetOutcomes :
         /\ last_download' = [item |-> next_item, get |-> get,
                              before |-> files[next_item]]
         /\ IF get = "connection_error"
            THEN \* not a requests.exceptions.Timeout: not caught
                 /\ Exit("ConnectionError")
                 /\ UNCHANGED <<files, next_item>>
            ELSE /\ files' = IF get = "timeout" THEN files
                             ELSE [files EXCEPT ![next_item] = "new"]
                 /\ IF next_item = cli_response.n
                    THEN cliPc' = "quit" /\ UNCHANGED next_item
                    ELSE cliPc' = "downloading" /\ next_item' = next_item + 1
                 /\ UNCHANGED cliStatus
    /\ UNCHANGED <<args, driver, cli_response, fetches, writes, dirExists,
                   dirCreated>>
    /\ UNCHANGED <<apiVars, postVars, recordVars, userVars>>

\* api.driver.quit(), the last statement.
start_scraper_quit ==
    /\ cliPc = "quit"
    /\ driver' = "quit"
    /\ cliPc' = "exited"
    /\ cliStatus' = "returned"
    /\ UNCHANGED <<args, cli_response, fetches, writes, downloads, dirExists,
                   dirCreated, files, next_item, last_download>>
    /\ UNCHANGED <<apiVars, postVars, recordVars, userVars>>

(* -------------------- make_post_request, called alone ----------------- *)
DirectPost ==
    \E o \in PagedOps, c \in 0 .. MaxItems :
      \E out \in PostOutcomes(o, c) :
        /\ postOutcome' = out
        /\ postReturn' = make_post_request(out)
        /\ UNCHANGED <<apiVars, recordVars, userVars, cliVars>>

(* ------------------- the older module (src/api.py) -------------------- *)
\* The operations of the older module that are modelled.
LegacyOps == {"user_videos", "trending_hashtags"}

\* requests.post is called without a timeout, so the POST does not time out.
LegacyOutcomes(o, c) == {out \in PageOutcomes(o, c) : out.kind # "timeout"}

\* print('HTTP error: ', status_code) names a variable that does not exist.
legacy_make_post_request(o) ==
    IF o.status # 200 THEN [raises |-> "NameError", ret |-> Unbound]
    ELSE make_post_request(o)

\* 'if limit:' is false for None and for 0.
Truthy(lim) == lim # None /\ lim # 0

\* A returned list the caller holds that is the function's default list
\* itself is extended with it.
HeldAfter(videos) ==
    IF held # NoHeld /\ held.shared /\ useDefault /\ held.op = op
    THEN [held EXCEPT !.list = videos]
    ELSE held

\* The caller keeps the first list it is given.  alias: the list is the
\* accumulator itself, not a slice of it.
Keep(videos, l, alias) ==
    IF held = NoHeld
    THEN held' = [list |-> l, was |-> l, shared |-> alias /\ useDefault,
                  op |-> op]
    ELSE held' = HeldAfter(videos)

\* 'return videos' / 'return hashtags' of the unbounded mode.
ReturnAccumulator(videos) == Return(videos) /\ Keep(videos, videos, TRUE)

ReturnSlice(videos, lim) ==
    /\ Return(Truncate(videos, lim))
    /\ Keep(videos, Truncate(videos, lim), FALSE)

LegacyCall == \E o \in LegacyOps, l \in Limits, d \in BOOLEAN : Call(o, l, d)

\* One invocation of get_user_videos / get_trending_hashtags of src/api.py.
LegacyPaginate(o) ==
    LET r == legacy_make_post_request(o)
        videos == Acc \o r.ret.list
    IN  /\ requests' = requests + 1
        /\ transport' = PostClass(o)
        /\ UNCHANGED <<callVars, envVars, commentVars>>
        /\ UNCHANGED <<postVars, recordVars, userVars, cliVars, pauseVars>>
        /\ IF r.raises # "none"
           THEN /\ Raise(r.raises)
                /\ UNCHANGED <<response, dflt, own, pages, pauses, held>>
           ELSE /\ response' = r.ret
                /\ IF ~r.ret.hasData
                   THEN /\ Raise("KeyError")
                        /\ UNCHANGED <<dflt, own, pages, pauses, held>>
                   ELSE /\ SetAcc(videos)
                        /\ pages' = Append(pages, r.ret.list)
                        /\ IF ~Truthy(limit)
                           THEN /\ pauses' = pauses
                                /\ ReturnAccumulator(videos)
                           ELSE IF op = "user_videos"
                           THEN /\ pauses' = pauses + 1
                                /\ IF ContinueUserVideos(videos, limit, r.ret)
                                   THEN /\ held' = HeldAfter(videos)
                                        /\ IF videos = <<>>
                                           THEN Raise("IndexError")
                                           ELSE Recurse(last_id(videos))
                                   ELSE ReturnSlice(videos, limit)
                           ELSE IF Len(videos) < limit
                                THEN /\ pauses' = pauses + 1
                                     /\ held' = HeldAfter(videos)
                                     /\ Recurse(cursor + 1)
                                ELSE /\ pauses' = pauses
                                     /\ ReturnSlice(videos, limit)

legacy_get_user_videos ==
    /\ pc = "running" /\ op = "user_videos"
    /\ \E o \in LegacyOutcomes(op, cursor) : LegacyPaginate(o)

legacy_get_trending_hashtags ==
    /\ pc = "running" /\ op = "trending_hashtags"
    /\ \E o \in LegacyOutcomes(op, cursor) : LegacyPaginate(o)

(* ------------------------------- pause -------------------------------- *)
\* Durations are counted in ulps: one ulp is 2^-Precision seconds, the
\* spacing of the floats below 1, and a float holds Precision significant
\* bits.
Ulps == 2 ^ Precision

\* The spacing of the floats around the real number s (in ulps).
RECURSIVE Spacing(_)
Spacing(s) == IF s < Ulps THEN 1 ELSE 2 * Spacing(s \div 2)

\* The float nearest to s, ties going to the even significand.
RoundFloat(s) ==
    LET q == Spacing(s)
        low == (s \div q) * q
        rem == s - low
    IN  IF 2 * rem < q THEN low
        ELSE IF 2 * rem > q THEN low + q
        ELSE IF (low \div q) % 2 = 0 THEN low ELSE low + q

\* random.random(): a float in [0, 1).
Draws == 0 .. Ulps - 1

\* self.pause_time + random.random(), for the draw k.
DurationDrawOnly(t, k) == k
Duration(t, k) == RoundFloat(t * Ulps + k)

\* API(pause_time=t), before the object is used.
configure ==
    /\ secs = None
    /\ pc = "idle"
    /\ \E t \in 0 .. MaxPause : pause_time' = t
    /\ UNCHANGED <<secs, waited>>
    /\ UNCHANGED <<server, avail, dflt, own, useDefault, op, limit, start_arg,
                   start, cursor, depth, pc, status, result, response, transport, requests,
                   pauses, pages, ncalls, commentVars, prev>>
    /\ UNCHANGED <<postVars, recordVars, userVars, cliVars, legacyVars>>

\* pause(): time.sleep suspends for the duration asked, or longer.
pause ==
    /\ \E k \in Draws, late \in 0 .. MaxLate :
         /\ secs' = Duration(pause_time, k)
         /\ waited' = secs' + late
    /\ UNCHANGED pause_time
    /\ UNCHANGED <<server, avail, dflt, own, useDefault, op, limit, start_arg,
                   start, cursor, depth, pc, status, result, response, transport, requests,
                   pauses, pages, ncalls, commentVars, prev>>
    /\ UNCHANGED <<postVars, recordVars, userVars, cliVars, legacyVars>>

(* --------------------------- specifications --------------------------- *)
Next ==
    \/ CallPaged
    \/ CallComments
    \/ get_user_videos
    \/ get_trending_videos
    \/ get_trending_hashtags
    \/ get_hashtag_videos
    \/ get_video_comments_open
    \/ get_video_comments_scroll

Spec == Init /\ [][Next]_vars

NextPost == DirectPost

SpecPost == Init /\ [][NextPost]_vars

\* The operations driven by the rendered page.
NextRender ==
    \/ CallUserId
    \/ CallComments
    \/ get_user_id
    \/ get_video_comments_open
    \/ get_video_comments_scroll

SpecRender == Init /\ [][NextRender]_vars

\* The loop of get_video_comments that builds the comment records.
NextRecords ==
    \/ build_start
    \/ build_record
    \/ build_return

SpecRecords == Init /\ [][NextRecords]_vars

\* The operations that make one request for one user.
NextUser ==
    \/ get_user_info
    \/ get_user_post_count

SpecUser == Init /\ [][NextUser]_vars

\* One run of the command-line program.
NextCli ==
    \/ start_scraper_parse
    \/ start_scraper_fetch
    \/ start_scraper_output
    \/ start_scraper_download
    \/ download_video
    \/ start_scraper_quit

SpecCli == Init /\ [][NextCli]_vars

\* Sequences of calls that end with one fetch issued twice.
NextStart ==
    \/ CallTrendingFrom
    \/ get_trending_videos

SpecStart == Init /\ [][NextStart]_vars

NextLegacy ==
    \/ LegacyCall
    \/ legacy_get_user_videos
    \/ legacy_get_trending_hashtags

SpecLegacy == Init /\ [][NextLegacy]_vars

NextPause ==
    \/ configure
    \/ pause

SpecPause == Init /\ [][NextPause]_vars

NextRepeat ==
    \/ Next
    \/ Repeat

SpecRepeat == Init /\ [][NextRepeat]_vars

(* ============================== claims ================================ *)
Done == pc = "done"
Returned == pc = "done" /\ status = "returned"
Paged == op \in PagedOps
\* Every POST of the current call was answered 200, accepted and held data.
AllAccepted == transport = "accepted" /\ response.hasData

\* The index of the first page of the current call whose item list is empty
\* (0 if there is none).
FirstEmpty ==
    IF \E k \in 1 .. Len(pages) : pages[k] = <<>>
    THEN CHOOSE k \in 1 .. Len(pages) :
            pages[k] = <<>> /\ \A j \in 1 .. (k - 1) : pages[j] # <<>>
    ELSE 0

\* C1: a list-fetching operation called with a positive limit L on a source of
\* A items returns normally, with exactly L items if L <= A and exactly A
\* items if L > A.  (Stated for the first call on the object, on a server
\* that honours its contract, every POST accepted, A >= 1; A = 0 is the case
\* of C4.)
C1_LengthIsMinLimitAvail ==
    (Done /\ Paged /\ server = "contract" /\ ncalls = 1 /\ limit >= 1 /\ avail >= 1
       /\ AllAccepted)
        => (status = "returned" /\ Len(result) = Min(limit, avail))

\* C2: whenever a list-fetching operation returns for a requested limit L,
\* the returned list has at most L items, whatever pages the server sent and
\* whatever earlier calls left behind.
C2_LengthAtMostLimit == Returned => Len(result) <= limit

\* A second call whose accumulator holds more than limit items returns
\* exactly limit of them.
C2_Witness ==
    /\ Returned /\ Paged /\ ncalls = 2 /\ useDefault /\ server = "loose"
    /\ limit >= 1 /\ Len(Acc) > limit /\ Len(result) = limit

\* C3: if the K-th page of a run is the first with an empty item list, the
\* run makes exactly K Transport calls and then returns, for every limit
\* larger than the number of items in pages 1..K-1.  (Stated for K >= 2;
\* K = 1 is the case of C4.)
C3_StopsAtFirstEmptyPage ==
    (Paged /\ ncalls = 1 /\ limit >= 1 /\ FirstEmpty > 1
       /\ limit > Len(Flatten(SubSeq(pages, 1, FirstEmpty - 1))))
        => (Returned /\ requests = FirstEmpty)

\* C4: if the very first page of a run is empty and the accumulator is empty,
\* the operation returns an empty list without raising and without a second
\* request.
C4_EmptyFirstPageReturnsEmpty ==
    (Paged /\ ncalls = 1 /\ limit >= 1 /\ Len(pages) >= 1 /\ pages[1] = <<>>)
        => (Returned /\ result = <<>> /\ requests = 1)

\* C5: when a Transport call of a run fails (status other than 200, or body
\* rejected), the run ends there: no further request, no exception, and the
\* items of the earlier pages, truncated to the limit, are returned.
C5_FailureReturnsAccumulated ==
    (Paged /\ ncalls = 1 /\ limit >= 1 /\ transport \in {"http_error", "rejected"})
        => (Returned /\ requests = Len(pages) + 1
            /\ result = Truncate(Flatten(pages), limit))

\* C6: make_post_request never raises: for every outcome of its POST it
\* returns a mapping, the empty one if the status is not 200 or the request
\* timed out.
C6_PostNeverRaises ==
    postOutcome.kind # "none"
        => (/\ postReturn.raises = "none"
            /\ (postOutcome.kind = "timeout" \/ postOutcome.status # 200)
                  => postReturn.ret = EmptyMap)

\* Every one of 'message' and 'msg' that the body holds passes its check.
PresentFieldsPass(body) ==
    /\ (body.message # Absent => body.message = "ok")
    /\ (body.msg # Absent => body.msg = "success")

\* C7: for a body received with status 200, make_post_request returns the body
\* unchanged exactly when every present field of 'message' and 'msg' passes
\* its check, and the empty mapping in every other case.
C7_ValidationTable ==
    (postOutcome.kind = "answer" /\ postOutcome.status = 200)
        => (/\ postReturn.raises = "none"
            /\ (postReturn.ret = postOutcome.body <=> PresentFieldsPass(postOutcome.body))
            /\ (~PresentFieldsPass(postOutcome.body) => postReturn.ret = EmptyMap))

\* A body whose 'message' passes and whose 'msg' fails is rejected.
C7_Witness ==
    /\ postOutcome.kind = "answer" /\ postOutcome.status = 200
    /\ postOutcome.body.message = "ok" /\ postOutcome.body.msg = "fail"
    /\ postOutcome.body.list # <<>>
    /\ postReturn.ret = EmptyMap

\* C8: invoked with limit None, a list-fetching operation makes exactly one
\* Transport call and returns that page's item list without raising.
C8_NoLimitReturnsOnePage ==
    (Done /\ Paged /\ ncalls = 1 /\ limit = None /\ AllAccepted)
        => (status = "returned" /\ requests = 1 /\ result = pages[1])

\* C9: on a server that honours its pagination contract, the list returned by
\* any call, not only the first on the object, holds no item twice.
C9_NoItemTwice ==
    (Returned /\ Paged /\ server = "contract") => NoDup(result)

\* C10: the list returned by a call is the first min(limit, n) items of the
\* concatenation of the pages fetched during that call, and holds nothing
\* fetched by an earlier call when the caller passed no accumulator.
C10_ResultIsPrefixOfFetched ==
    (Returned /\ Paged) => result = Truncate(Flatten(pages), limit)

\* C11: a fetch repeated with the same limit on the same object, with the
\* upstream data unchanged, returns the same set of primary identifiers as
\* the fetch it repeats.
Repeated == prev # NoCall /\ Returned /\ Paged
C11_RepeatReturnsSameIds == Repeated => Ids(result) = prev.ids

\* C12: the scroll loop of get_video_comments is left as soon as the visible
\* comment elements number at least the effective limit (without another
\* scroll), or as soon as a poll finds the trailing element of the previous
\* poll, and a loop that is left normally is left for one of these two
\* reasons; with limit 5, a declared count of at least 5 and 3 elements found
\* by two successive polls, one scroll is made and 3 comments are returned.
LoopLeft == pc' = "done" /\ status' # "IndexError"
C12_LoopStops ==
    [][pc = "scrolling" =>
        LET lim == EffectiveLimit(limit, num_comments)
        IN /\ (elements >= lim) => (pc' = "done" /\ polls' = polls)
           /\ (elements < lim /\ elements' # 0 /\ elements' = last_elem)
                => (LoopLeft /\ polls' = polls + 1)
           /\ LoopLeft => (elements >= lim \/ elements' = last_elem)
           /\ (limit = 5 /\ num_comments >= 5 /\ elements = 3 /\ elements' = 3
               /\ status' = "returned")
                => (polls' = polls + 1 /\ Len(result') = 3)]_vars
C12_Witness ==
    /\ Returned /\ op = "video_comments"
    /\ limit = 5 /\ num_comments >= 5
    /\ polls = 1 /\ elements = 3 /\ Len(result) = 3

\* C13: when get_video_comments returns and the visible comment elements
\* number at least min(limit, C), C being the count the page declares, the
\* list returned holds exactly min(limit, C) records (all C of them when C is
\* below the limit).
CommentsReturned == Returned /\ op = "video_comments"
Defective(e) ==
    /\ e # NoElem
    /\ e.nickname # Absent /\ e.time # Absent
    /\ (e.text = Absent \/ e.like.kind \in {"absent", "nonnumeric"})
C14_DefaultsForAbsentFields ==
    Defective(elem) =>
        /\ building \in {"loop", "returned"}
        /\ comments_arr # <<>>
        /\ LET r == comments_arr[Len(comments_arr)]
           IN /\ (elem.text = Absent => r.comment_text = "")
              /\ (elem.like.kind \in {"absent", "nonnumeric"} => r.like_count = 0)

\* C15: when get_user_id or get_video_comments does not find a mandatory
\* element of the page (first video, video card, comment count, comment
\* item, window.data block), the call returns a no-data value (None, an
\* empty list) and raises nothing.
C15_MissingElementReturnsNoData ==
    (Done /\ op \in {"user_id", "video_comments"} /\ missing # "none")
        => (status = "returned" /\ result = <<>> /\ poster_uid = None)

\* C16: when the POST of get_user_info or get_user_post_count fails
\* (make_post_request returns the empty mapping) or the answer holds no entry
\* for the requested user, the operation returns an empty result and raises
\* nothing.
UserCallFailed ==
    /\ user_call.op # "none"
    /\ postReturn.raises = "none"
    /\ \/ postReturn.ret = EmptyMap
       \/ user_call.op = "user_info" /\ postReturn.ret.list = <<>>
       \/ user_call.op = "user_post_count"
          /\ user_call.uid > Len(postReturn.ret.list)
C16_UserOperationsNeverFatal ==
    UserCallFailed => (user_status = "returned" /\ user_value = <<>>)

\* C17: whenever start_scraper has exited after creating the API object,
\* normally or by an exception, the browser driver has been quit.
C17_DriverReleasedOnEveryExit == cliPc = "exited" => driver = "quit"

\* C18: a run without -d calls download_video never and does not create the
\* download directory; a run with -d in a video-listing mode that ends
\* normally has called download_video once per item of the response.
VideoModes == {"user_videos", "trending_videos", "hashtag_videos"}
C18_DownloadsOnlyWithD ==
    /\ (cliPc # "start" /\ ~args.d) => (downloads = 0 /\ ~dirCreated)
    /\ (cliPc = "exited" /\ cliStatus = "returned" /\ args.d
        /\ args.mode \in VideoModes) => downloads = cli_response.n

\* C19: once the checks of start_scraper are passed by a command line whose
\* mode is not one of the eight, or whose mode lacks its required option,
\* start_scraper has raised Exception and has made no API fetch, written no
\* output file, made no download and created no directory.
InvalidCommandLine ==
    \/ args.mode \notin {"user_id", "user_info", "user_post_count",
                         "user_videos", "trending_videos", "trending_hashtags",
                         "hashtag_videos", "video_comments"}
    \/ /\ args.mode \in {"user_id", "user_info", "user_post_count",
                         "user_videos", "hashtag_videos", "video_comments"}
       /\ ~args.given
C19_InvalidCommandLineRaises ==
    (cliPc \notin {"start", "dispatch"} /\ InvalidCommandLine)
        => /\ cliPc = "exited" /\ cliStatus = "Exception"
           /\ fetches = 0 /\ writes = 0 /\ downloads = 0 /\ ~dirCreated
C19_Witness ==
    /\ cliPc = "exited" /\ cliStatus = "Exception"
    /\ args.mode = "hashtag_videos" /\ ~args.given
    /\ args.output /\ Download(args)
    /\ fetches = 0 /\ writes = 0 /\ downloads = 0

\* C20: download_video raises nothing; after a GET that timed out the file
\* at filepath is as it was before the call, and after any other GET the
\* file exists.
C20_DownloadWritesUnlessTimeout ==
    last_download.get # "none" =>
        /\ cliStatus # "ConnectionError"
        /\ last_download.get = "timeout"
             => files[last_download.item] = last_download.before
        /\ last_download.get # "timeout" => files[last_download.item] # "absent"

\* C21: a pagination run that has made K Transport calls has paused exactly
\* K-1 times when it ends: one pause between consecutive calls, none before
\* the first call and none after the last one.
C21_PausesBetweenRequests ==
    (Done /\ Paged /\ requests >= 1) => pauses = requests - 1

\* C22 as stated: every wait of pause() lasts at least pause_time and
\* strictly less than pause_time + 1 seconds.
C22_WaitBelowNextSecond ==
    waited # None =>
        /\ pause_time * Ulps <= waited
        /\ waited < (pause_time + 1) * Ulps

\* C22, amended: every wait of pause() lasts at least pause_time seconds;
\* the duration pause() asks time.sleep for is at least pause_time and at
\* most pause_time + 1 seconds (that end included), and the wait lasts at
\* least the duration asked.
C22_WaitAtLeastBase ==
    secs # None =>
        /\ pause_time * Ulps <= secs
        /\ secs <= (pause_time + 1) * Ulps
        /\ secs <= waited

\* A pause with the default pause_time whose sum rounded up to a whole
\* pause_time + 1 seconds.
C22_Witness ==
    /\ pause_time = PAUSE_TIME
    /\ secs = (pause_time + 1) * Ulps
    /\ waited = secs

\* C23: a pagination run issues no Transport call while the accumulator
\* holds limit items or more: whenever an invocation is about to send its
\* request, fewer than limit items have been accumulated (limit >= 1).
C23_NoRequestAtLimit ==
    (Paged /\ pc = "running" /\ limit # None /\ limit >= 1) => Len(Acc) < limit

\* C24: the first request of a pagination run carries the default cursor;
\* every later request of get_user_videos and get_trending_videos carries
\* the postId of the last item of the accumulator, and the k-th request of
\* get_trending_hashtags and get_hashtag_videos carries page 1 + (k - 1).
C24_CursorFollowsAccumulator ==
    (Paged /\ pc = "running") =>
        IF requests = 0 THEN cursor = DefaultCursor(op)
        ELSE IF ByLastId(op)
             THEN Acc # <<>> /\ cursor = Acc[Len(Acc)]
             ELSE cursor = DefaultCursor(op) + requests

\* A third request about to be sent with the postId of the last of several
\* accumulated items.
C24_Witness ==
    /\ Paged /\ pc = "running" /\ ByLastId(op)
    /\ requests = 2
    /\ Len(Acc) >= 2
    /\ Acc[1] # Acc[Len(Acc)]
    /\ cursor = Acc[Len(Acc)]

\* C25: a list that a list-fetching operation has returned is not changed
\* by any later call on the same API object: it holds what it held when it
\* was returned.
C25_ReturnedListUnchanged ==
    held # NoHeld => held.list = held.was

\* C26: every request of one run of get_trending_videos carries, as
\* startNum, the start the caller passed to that run.
C26_StartNumIsCallersStart ==
    (op = "trending_videos" /\ pc = "running") => start = start_arg

\* C27: in get_user_videos the response is a non-empty mapping whenever the
\* guard len(response) > 0 is reached, so a run that returns has stopped
\* because the accumulator holds limit items or more.
C27_ResponseNonEmptyAtGuard ==
    (op = "user_videos" /\ response.hasData) =>
        /\ MapLen(response) > 0
        /\ Returned => Len(Acc) >= limit

\* A run of get_user_videos that evaluated the guard on a response holding
\* nothing but 'data', went on, and returned limit items.
C27_Witness ==
    /\ op = "user_videos" /\ Returned
    /\ requests >= 2
    /\ response.hasData /\ response.message = Absent /\ response.msg = Absent
    /\ Len(result) = limit

====
